---- MODULE Spec2Model ----
(***************************************************************************)
(* qr_local_decoder.py: decode QR codes from image files or a webcam.      *)
(*                                                                         *)
(* The model follows main() through its three modes (help, webcam, files). *)
(* The decoding libraries (cv2.QRCodeDetector, zxingcpp, Pillow), the      *)
(* camera, the keyboard and the clipboard are the environment: what they   *)
(* return, and whether they raise, is chosen nondeterministically.         *)
(*                                                                         *)
(* A text is a sequence of one-character strings; None is a value that is  *)
(* no such sequence.  stdout and stderr are the sequences of lines written *)
(* by main() and decode_from_webcam(); the diagnostics dbg() adds under    *)
(* --debug change no other state and are not recorded.                     *)
(*                                                                         *)
(* Spec is the whole program on command lines of up to MaxPaths paths;     *)
(* SpecOneFile is main() on a single path with longer lists of more texts. *)
(***************************************************************************)
EXTENDS Integers, Sequences, FiniteSets, TLC

\* ------------------------------------------------------------------ bounds
\* Paths on the command line, codes a backend reports for one image, frames
\* the camera delivers; MaxCodesOneFile bounds the codes in SpecOneFile.
MaxPaths == 2
MaxCodes == 2
MaxFrames == 2
MaxCodesOneFile == 3

\* ------------------------------------------------------------------ texts
None == <<"None">>

EmptyText == <<>>

HttpA == <<"h", "t", "t", "p", ":", "/", "/", "a">>

WwwA == <<"w", "w", "w", ".", "a">>

AIo == <<"a", ".", "i", "o">>

Hi == <<"h", "i">>

\* The texts a decoder may report for a code it decoded: in Spec, and in
\* SpecOneFile.
Texts == {HttpA, Hi}

ManyTexts == {HttpA, WwwA, AIo, Hi}

\* What a decoder may hand back for one detected code: a text of T, "" or None.
RawTexts(T) == T \cup {EmptyText, None}

PrevClip == <<"previous clipboard content">>

SeqsUpTo(S, n) == UNION {[1..k -> S] : k \in 0..n}

\* The sequences of at most n elements of S that name no element twice.
DistinctSeqsUpTo(S, n) ==
    {q \in SeqsUpTo(S, n) : \A k, l \in 1..Len(q) : k # l => q[k] # q[l]}

InSeq(x, s) == \E k \in 1..Len(s) : s[k] = x

\* Python truthiness of a str-or-None value.
Truthy(t) == t # None /\ t # EmptyText

\* ------------------------------------------------------------------ is_url
LowerLetters == {"a", "b", "c", "d", "e", "f", "g", "h", "i", "j", "k", "l", "m",
                 "n", "o", "p", "q", "r", "s", "t", "u", "v", "w", "x", "y", "z"}

UpperLetters == {"A", "B", "C", "D", "E", "F", "G", "H", "I", "J", "K", "L", "M",
                 "N", "O", "P", "Q", "R", "S", "T", "U", "V", "W", "X", "Y", "Z"}

Digits == {"0", "1", "2", "3", "4", "5", "6", "7", "8", "9"}

Whitespace == {" ", "\t", "\n", "\r", "\f"}

\* [a-z] under (?i)
IsLetter(c) == c \in LowerLetters \cup UpperLetters

\* \w
IsWord(c) == IsLetter(c) \/ c \in Digits \/ c = "_"

\* [a-z0-9.\-] under (?i)
IsDomainChar(c) == IsLetter(c) \/ c \in Digits \/ c \in {".", "-"}

\* [^\s()<>]
IsPlainChar(c) == c \notin Whitespace \cup {"(", ")", "<", ">"}

\* One letter of a literal matched under (?i): lo is the lower-case letter.
IsCI(c, lo, up) == c = lo \/ c = up

\* \b before position i (1-based; i = Len(s)+1 is the end of the string).
WordBoundary(s, i) ==
    LET before == i > 1 /\ IsWord(s[i - 1])
        after == i <= Len(s) /\ IsWord(s[i])
    IN before # after

\* https?:// at i: the positions right after a match.
SchemeEnds(s, i) ==
    IF /\ i + 3 <= Len(s)
       /\ IsCI(s[i], "h", "H") /\ IsCI(s[i + 1], "t", "T")
       /\ IsCI(s[i + 2], "t", "T") /\ IsCI(s[i + 3], "p", "P")
    THEN LET j == IF i + 4 <= Len(s) /\ IsCI(s[i + 4], "s", "S") THEN {i + 4, i + 5}
                   ELSE {i + 4}
         IN {k + 3 : k \in {k \in j : /\ k + 2 <= Len(s)
                                      /\ s[k] = ":" /\ s[k + 1] = "/" /\ s[k + 2] = "/"}}
    ELSE {}

\* www\d{0,3}[.] at i
WwwEnds(s, i) ==
    IF /\ i + 2 <= Len(s)
       /\ IsCI(s[i], "w", "W") /\ IsCI(s[i + 1], "w", "W") /\ IsCI(s[i + 2], "w", "W")
    THEN {k + 1 : k \in {k \in (i + 3)..(i + 6) :
                            /\ k <= Len(s)
                            /\ s[k] = "."
                            /\ \A d \in (i + 3)..(k - 1) : s[d] \in Digits}}
    ELSE {}

\* [a-z0-9.\-]+[.][a-z]{2,} at i
DomainEnds(s, i) ==
    {j \in (i + 4)..(Len(s) + 1) :
        \E k \in (i + 1)..(j - 3) :
            /\ \A d \in i..(k - 1) : IsDomainChar(s[d])
            /\ s[k] = "."
            /\ \A d \in (k + 1)..(j - 1) : IsLetter(s[d])}

PrefixEnds(s, i) == SchemeEnds(s, i) \cup WwwEnds(s, i) \cup DomainEnds(s, i)

\* ([^\s()<>]+|(\([^\s()<>]+\)))* from j: the positions a match can end at.
RECURSIVE InnerEnds(_, _)
InnerEnds(s, j) ==
    {j} \cup
    (IF j <= Len(s) /\ IsPlainChar(s[j]) THEN InnerEnds(s, j + 1) ELSE {}) \cup
    (IF j <= Len(s) /\ s[j] = "("
     THEN UNION {InnerEnds(s, k + 1) :
                   k \in {k \in (j + 2)..Len(s) :
                            /\ s[k] = ")"
                            /\ \A d \in (j + 1)..(k - 1) : IsPlainChar(s[d])}}
     ELSE {})

\* One item of (?:[^\s()<>]+|\((...)*\))+ matches at j.
TailItemAt(s, j) ==
    /\ j <= Len(s)
    /\ \/ IsPlainChar(s[j])
       \/ /\ s[j] = "("
          /\ \E k \in InnerEnds(s, j + 1) : k <= Len(s) /\ s[k] = ")"

\* URL_REGEX.search(s)
URL_REGEX_search(s) ==
    \E i \in 1..Len(s) :
        /\ WordBoundary(s, i)
        /\ \E j \in PrefixEnds(s, i) : TailItemAt(s, j)

is_url(text) == URL_REGEX_search(IF Truthy(text) THEN text ELSE EmptyText)

\* ------------------------------------------------------------------ environment
\* The paths a command line may name, and those of them that exist.
Paths == {"a.png", "b.png", "missing.png"}

ExistingFiles == {"a.png", "b.png"}

os_path_exists(path) == path \in ExistingFiles

\* What cv2.QRCodeDetector.detectAndDecodeMulti may do: raise, find nothing
\* (retval False, no texts) or report the detected codes, decoded or not.
MultiOutcomes(T, n) ==
    {[raised |-> TRUE, retval |-> FALSE, info |-> <<>>],
     [raised |-> FALSE, retval |-> FALSE, info |-> <<>>]}
    \cup {[raised |-> FALSE, retval |-> TRUE, info |-> d] : d \in SeqsUpTo(RawTexts(T), n)}

\* What cv2.QRCodeDetector.detectAndDecode may do: raise or return one value.
SingleOutcomes(T) ==
    {[raised |-> TRUE, t |-> None]} \cup {[raised |-> FALSE, t |-> t] : t \in RawTexts(T)}

\* What zxingcpp.read_barcodes may do: raise or return results; texts holds
\* getattr(r, "text", None) of each result.
ZXingOutcomes(T, n) ==
    {[raised |-> TRUE, texts |-> <<>>]}
    \cup {[raised |-> FALSE, texts |-> d] : d \in SeqsUpTo(RawTexts(T), n)}

Line(kind, path, text) == [kind |-> kind, path |-> path, text |-> text]

TextLines(ts) == [k \in 1..Len(ts) |-> Line("text", "", ts[k])]

\* ------------------------------------------------------------------ state
VARIABLES
    args,                \* parsed command line: paths, webcam, copy
    CV2_AVAILABLE, PIL_AVAILABLE, PYPERCLIP_AVAILABLE, ZXING_AVAILABLE,
    pc,                  \* where main() is
    path_idx,            \* position of the first loop of main() in args.paths
    all_results,         \* main(): (path, texts) of every path decoded
    calls,               \* the backend functions invoked for the current path
    decoded_info,        \* try_decode_opencv: what detectAndDecodeMulti returned
    texts_raw,           \* try_decode_opencv: texts_raw
    cv_texts,            \* decode_from_image_path: result of try_decode_opencv
    results,             \* try_decode_zxing: the texts of read_barcodes' results
    zx_texts,            \* decode_from_image_path: result of try_decode_zxing
    res_idx,             \* position of the second loop of main() in all_results
    exit_code,
    copy_calls,          \* every pyperclip.copy call: its argument and outcome
    clipboard,
    stdout, stderr,
    cap,                 \* decode_from_webcam: the camera (unset, failed, opened, released)
    seen, frames,        \* decode_from_webcam: seen, number of cap.read() calls
    ret                  \* <<>> while main() runs, <<code>> once it returned

env == <<args, CV2_AVAILABLE, PIL_AVAILABLE, PYPERCLIP_AVAILABLE, ZXING_AVAILABLE>>

decode_locals == <<calls, decoded_info, texts_raw, cv_texts, results, zx_texts>>

report_vars == <<res_idx, exit_code>>

webcam_vars == <<cap, seen, frames>>

vars == <<env, pc, path_idx, all_results, decode_locals, report_vars, copy_calls,
          clipboard, stdout, stderr, webcam_vars, ret>>

\* The module after its imports, main() not yet entered.
Start ==
    /\ CV2_AVAILABLE \in BOOLEAN
    /\ PIL_AVAILABLE \in BOOLEAN
    /\ PYPERCLIP_AVAILABLE \in BOOLEAN
    /\ ZXING_AVAILABLE \in BOOLEAN
    /\ pc = "main"
    /\ path_idx = 1
    /\ all_results = <<>>
    /\ calls = <<>>
    /\ decoded_info = <<>>
    /\ texts_raw = <<>>
    /\ cv_texts = <<>>
    /\ results = <<>>
    /\ zx_texts = <<>>
    /\ res_idx = 1
    /\ exit_code = 0
    /\ copy_calls = <<>>
    /\ clipboard = PrevClip
    /\ stdout = <<>>
    /\ stderr = <<>>
    /\ cap = "unset"
    /\ seen = {}
    /\ frames = 0
    /\ ret = <<>>

\* Any command line of at most MaxPaths different paths.
Init ==
    /\ args \in [paths : DistinctSeqsUpTo(Paths, MaxPaths), webcam : BOOLEAN,
                 copy : BOOLEAN]
    /\ Start

\* One path, no --webcam: a single image file, or a path that is missing.
InitOneFile ==
    /\ args \in [paths : [1..1 -> Paths], webcam : {FALSE}, copy : BOOLEAN]
    /\ Start

\* ------------------------------------------------------------------ decoders
\* try_decode_opencv: filter empties and dedup.
RECURSIVE opencv_unique_from(_, _, _)
opencv_unique_from(raw, seen_, out) ==
    IF raw = <<>> THEN out
    ELSE LET t == Head(raw)
         IN IF Truthy(t) /\ t \notin seen_
            THEN opencv_unique_from(Tail(raw), seen_ \cup {t}, Append(out, t))
            ELSE opencv_unique_from(Tail(raw), seen_, out)

\* The filter without the seen set.
opencv_unique_no_seen(raw) == SelectSeq(raw, Truthy)

opencv_unique(raw) == opencv_unique_from(raw, {}, <<>>)

\* try_decode_zxing: the loop over results.
RECURSIVE zxing_unique_from(_, _, _)
zxing_unique_from(rs, seen_, out) ==
    IF rs = <<>> THEN out
    ELSE LET s == Head(rs)
         IN IF Truthy(s) /\ s \notin seen_
            THEN zxing_unique_from(Tail(rs), seen_ \cup {s}, Append(out, s))
            ELSE zxing_unique_from(Tail(rs), seen_, out)

zxing_unique(rs) == zxing_unique_from(rs, {}, <<>>)

\* load_image_cv2 returns an image (not None).
load_image_cv2_ok(imread_ok, pillow_ok) ==
    \/ CV2_AVAILABLE /\ imread_ok
    \/ PIL_AVAILABLE /\ pillow_ok

\* load_image_pil returns an image (not None).
load_image_pil_ok(open_ok) == PIL_AVAILABLE /\ open_ok

\* try_decode_opencv: texts_raw after the multi decode.
multi_texts_raw(m) ==
    IF ~m.raised /\ m.retval /\ m.info # <<>> THEN m.info ELSE <<>>

\* try_decode_opencv: "if not texts_raw", the single decode is tried.
single_fallback(raw) == raw = <<>>

\* try_decode_opencv: texts_raw after the single decode.
single_texts_raw(s) ==
    IF ~s.raised /\ s.t # None THEN <<s.t>> ELSE <<>>

\* The test inverted.
opencv_succeeded_inverted(texts) == texts = <<>>

\* decode_from_image_path: "if texts", the OpenCV result is returned.
opencv_succeeded(texts) == texts # <<>>

\* ------------------------------------------------------------------ main
\* The paths tested before --webcam.
main_mode_paths_first(a) ==
    IF a.paths # <<>> THEN "files"
    ELSE IF a.webcam THEN "webcam"
    ELSE "help"

\* main(): which of its three branches runs.
main_mode(a) ==
    IF a.paths = <<>> /\ ~a.webcam THEN "help"
    ELSE IF a.webcam THEN "webcam"
    ELSE "files"

\* main(): parse_args, then help or the dispatch to webcam or file mode.
MainStart ==
    /\ pc = "main"
    /\ IF main_mode(args) = "help"
       THEN /\ stdout' = Append(stdout, Line("help", "", <<>>))
            /\ ret' = <<1>>
            /\ pc' = "done"
       ELSE /\ pc' = IF main_mode(args) = "webcam" THEN "webcam" ELSE "decode_loop"
            /\ UNCHANGED <<stdout, ret>>
    /\ UNCHANGED <<env, path_idx, all_results, decode_locals, report_vars, copy_calls,
                   clipboard, stderr, webcam_vars>>

\* main(): a path that does not exist is reported and skipped.
PathNotFound ==
    /\ pc = "decode_loop"
    /\ path_idx <= Len(args.paths)
    /\ ~os_path_exists(args.paths[path_idx])
    /\ stderr' = Append(stderr, Line("not found", args.paths[path_idx], <<>>))
    /\ path_idx' = path_idx + 1
    /\ UNCHANGED <<env, pc, all_results, decode_locals, report_vars, copy_calls,
                   clipboard, stdout, webcam_vars, ret>>

\* decode_from_image_path up to the multi decode of try_decode_opencv
\* (load_image_cv2, the availability check, detectAndDecodeMulti); when the
\* multi decode gave texts_raw, the filter and dedup and the return as well.
DecodeOpenCVMulti(T, n) ==
    /\ pc = "decode_loop"
    /\ path_idx <= Len(args.paths)
    /\ os_path_exists(args.paths[path_idx])
    /\ results' = <<>>
    /\ zx_texts' = <<>>
    /\ \E img_ok \in {load_image_cv2_ok(imread_ok, pillow_ok) :
                         imread_ok \in BOOLEAN, pillow_ok \in BOOLEAN} :
         IF ~CV2_AVAILABLE \/ ~img_ok
         THEN /\ calls' = <<"try_decode_opencv">>
              /\ decoded_info' = <<>>
              /\ texts_raw' = <<>>
              /\ cv_texts' = <<>>
              /\ pc' = "opencv_returned"
         ELSE \E m \in MultiOutcomes(T, n) :
                /\ calls' = <<"try_decode_opencv", "detectAndDecodeMulti">>
                /\ decoded_info' = m.info
                /\ texts_raw' = multi_texts_raw(m)
                /\ IF single_fallback(multi_texts_raw(m))
                   THEN /\ cv_texts' = <<>>
                        /\ pc' = "opencv_single"
                   ELSE /\ cv_texts' = opencv_unique(multi_texts_raw(m))
                        /\ pc' = "opencv_returned"
    /\ UNCHANGED <<env, path_idx, all_results, report_vars, copy_calls, clipboard,
                   stdout, stderr, webcam_vars, ret>>

\* try_decode_opencv from the single fallback on: detectAndDecode, the filter
\* and dedup, the return.
DecodeOpenCVSingle(T) ==
    /\ pc = "opencv_single"
    /\ \E s \in SingleOutcomes(T) :
         /\ texts_raw' = single_texts_raw(s)
         /\ cv_texts' = opencv_unique(single_texts_raw(s))
    /\ calls' = Append(calls, "detectAndDecode")
    /\ pc' = "opencv_returned"
    /\ UNCHANGED <<env, path_idx, all_results, decoded_info, results, zx_texts,
                   report_vars, copy_calls, clipboard, stdout, stderr, webcam_vars, ret>>

\* decode_from_image_path returns the OpenCV texts; main() records them.
DecodeReturnOpenCV ==
    /\ pc = "opencv_returned"
    /\ opencv_succeeded(cv_texts)
    /\ all_results' = Append(all_results,
                             [path |-> args.paths[path_idx], texts |-> cv_texts])
    /\ path_idx' = path_idx + 1
    /\ pc' = "decode_loop"
    /\ UNCHANGED <<env, decode_locals, report_vars, copy_calls, clipboard, stdout,
                   stderr, webcam_vars, ret>>

\* decode_from_image_path falls back to ZXing (load_image_pil,
\* try_decode_zxing) and returns its texts; main() records them.
DecodeZXing(T, n) ==
    /\ pc = "opencv_returned"
    /\ ~opencv_succeeded(cv_texts)
    /\ \E pil_ok \in {load_image_pil_ok(open_ok) : open_ok \in BOOLEAN} :
         IF ~(ZXING_AVAILABLE /\ pil_ok)
         THEN /\ calls' = Append(calls, "try_decode_zxing")
              /\ results' = <<>>
              /\ zx_texts' = <<>>
              /\ all_results' = Append(all_results,
                                       [path |-> args.paths[path_idx], texts |-> <<>>])
         ELSE \E z \in ZXingOutcomes(T, n) :
                /\ calls' = calls \o <<"try_decode_zxing", "read_barcodes">>
                /\ results' = z.texts
                /\ zx_texts' = IF z.raised THEN <<>> ELSE zxing_unique(z.texts)
                /\ all_results' =
                     Append(all_results,
                            [path |-> args.paths[path_idx],
                             texts |-> IF z.raised THEN <<>> ELSE zxing_unique(z.texts)])
    /\ decoded_info' = <<>>
    /\ texts_raw' = <<>>
    /\ path_idx' = path_idx + 1
    /\ pc' = "decode_loop"
    /\ UNCHANGED <<env, cv_texts, report_vars, copy_calls, clipboard, stdout, stderr,
                   webcam_vars, ret>>

\* main(): the first loop is over; exit_code = 0 and the second loop begins.
BeginReport ==
    /\ pc = "decode_loop"
    /\ path_idx > Len(args.paths)
    /\ pc' = "report_loop"
    /\ exit_code' = 0
    /\ res_idx' = 1
    /\ calls' = <<>>
    /\ decoded_info' = <<>>
    /\ texts_raw' = <<>>
    /\ cv_texts' = <<>>
    /\ results' = <<>>
    /\ zx_texts' = <<>>
    /\ UNCHANGED <<env, path_idx, all_results, copy_calls, clipboard, stdout, stderr,
                   webcam_vars, ret>>

\* min in place of max.
max_as_min(a, b) == IF a >= b THEN b ELSE a

\* max(a, b)
max(a, b) == IF a >= b THEN a ELSE b

\* main(): urls
urls(texts) == SelectSeq(texts, is_url)

\* main(): rest
rest(texts) == SelectSeq(texts, LAMBDA t : ~InSeq(t, urls(texts)))

\* The two groups in the other order.
ordered_rest_first(texts) == rest(texts) \o urls(texts)

\* main(): ordered
ordered(texts) == urls(texts) \o rest(texts)

\* The last text in place of the first.
copy_argument_last(ord) == ord[Len(ord)]

\* main(): the text handed to pyperclip.copy
copy_argument(ord) == ord[1]

\* main(): a decoded path without texts.
ReportNoQR ==
    /\ pc = "report_loop"
    /\ res_idx <= Len(all_results)
    /\ all_results[res_idx].texts = <<>>
    /\ stdout' = Append(stdout, Line("no QR found", all_results[res_idx].path, <<>>))
    /\ exit_code' = max(exit_code, 4)
    /\ res_idx' = res_idx + 1
    /\ UNCHANGED <<env, pc, path_idx, all_results, decode_locals, copy_calls, clipboard,
                   stderr, webcam_vars, ret>>

\* main(): a decoded path with texts: order, print, copy.  pyperclip.copy may
\* raise; a call that raises leaves the clipboard as it was.
ReportTexts ==
    /\ pc = "report_loop"
    /\ res_idx <= Len(all_results)
    /\ all_results[res_idx].texts # <<>>
    /\ LET r == all_results[res_idx]
           ord == ordered(r.texts)
           header == IF Len(all_results) > 1 THEN <<Line("header", r.path, <<>>)>>
                     ELSE <<>>
       IN /\ stdout' = stdout \o header \o TextLines(ord)
          /\ IF args.copy /\ PYPERCLIP_AVAILABLE
             THEN \E raises \in BOOLEAN :
                    /\ copy_calls' = Append(copy_calls,
                                            [file |-> res_idx, text |-> copy_argument(ord),
                                             ok |-> ~raises])
                    /\ clipboard' = IF raises THEN clipboard ELSE copy_argument(ord)
                    /\ stderr' = IF raises
                                 THEN Append(stderr,
                                             Line("Failed to copy to clipboard", "", <<>>))
                                 ELSE stderr
             ELSE UNCHANGED <<copy_calls, clipboard, stderr>>
    /\ res_idx' = res_idx + 1
    /\ UNCHANGED <<env, pc, path_idx, all_results, decode_locals, exit_code,
                   webcam_vars, ret>>

\* main(): return exit_code
MainReturn ==
    /\ pc = "report_loop"
    /\ res_idx > Len(all_results)
    /\ ret' = <<exit_code>>
    /\ pc' = "done"
    /\ UNCHANGED <<env, path_idx, all_results, decode_locals, report_vars, copy_calls,
                   clipboard, stdout, stderr, webcam_vars>>

\* ------------------------------------------------------------------ webcam
\* decode_from_webcam: the OpenCV check and the opening of the camera.
WebcamOpen ==
    /\ pc = "webcam"
    /\ IF ~CV2_AVAILABLE
       THEN /\ stderr' = Append(stderr, Line("OpenCV required for webcam mode", "", <<>>))
            /\ ret' = <<2>>
            /\ pc' = "done"
            /\ UNCHANGED <<stdout, cap>>
       ELSE \E isOpened \in BOOLEAN :
              IF ~isOpened
              THEN /\ stderr' = Append(stderr, Line("cannot access webcam", "", <<>>))
                   /\ ret' = <<3>>
                   /\ pc' = "done"
                   /\ cap' = "failed"
                   /\ UNCHANGED stdout
              ELSE /\ stdout' = Append(stdout, Line("Webcam mode", "", <<>>))
                   /\ pc' = "webcam_loop"
                   /\ cap' = "opened"
                   /\ UNCHANGED <<stderr, ret>>
    /\ UNCHANGED <<env, path_idx, all_results, decode_locals, report_vars, copy_calls,
                   clipboard, seen, frames>>

\* decode_from_webcam: cap.read() fails; the loop ends and 0 is returned.
WebcamReadFails ==
    /\ pc = "webcam_loop"
    /\ frames < MaxFrames
    /\ frames' = frames + 1
    /\ cap' = "released"
    /\ ret' = <<0>>
    /\ pc' = "done"
    /\ UNCHANGED <<env, path_idx, all_results, decode_locals, report_vars, copy_calls,
                   clipboard, stdout, stderr, seen>>

\* decode_from_webcam: a new text t is recorded, printed and, with --copy,
\* copied.  st.raised: pyperclip.copy raised.
webcam_text(st, t, copying, copy_raises) ==
    IF Truthy(t) /\ t \notin st.seen
    THEN [seen |-> st.seen \cup {t},
          out |-> Append(st.out, t),
          clip |-> IF copying /\ ~copy_raises THEN t ELSE st.clip,
          copies |-> IF copying
                     THEN Append(st.copies, [file |-> 0, text |-> t, ok |-> ~copy_raises])
                     ELSE st.copies,
          raised |-> copying /\ copy_raises]
    ELSE st

\* decode_from_webcam: "for t in decoded_info or []", left when a copy raises.
RECURSIVE webcam_multi(_, _, _, _)
webcam_multi(info, st, copying, copy_raises) ==
    IF info = <<>> \/ st.raised THEN st
    ELSE webcam_multi(Tail(info), webcam_text(st, Head(info), copying, copy_raises),
                      copying, copy_raises)

\* decode_from_webcam: the except branch, the single decode; what it raises is
\* swallowed.
webcam_single(s, st, copying, copy_raises) ==
    IF s.raised THEN [st EXCEPT !.raised = FALSE]
    ELSE [webcam_text([st EXCEPT !.raised = FALSE], s.t, copying, copy_raises)
            EXCEPT !.raised = FALSE]

\* decode_from_webcam: the try statement of one turn of the loop, given what
\* the multi decode, pyperclip.copy and the single decode do.
webcam_decode(m, copy_raises, s, st0, copying) ==
    LET st1 == IF m.raised THEN [st0 EXCEPT !.raised = TRUE]
               ELSE IF m.retval THEN webcam_multi(m.info, st0, copying, copy_raises)
               ELSE st0
    IN IF st1.raised THEN webcam_single(s, st1, copying, copy_raises) ELSE st1

\* decode_from_webcam: one turn of the loop on a frame that was read.
WebcamFrame(T, n) ==
    /\ pc = "webcam_loop"
    /\ frames < MaxFrames
    /\ frames' = frames + 1
    /\ LET copying == args.copy /\ PYPERCLIP_AVAILABLE
           st0 == [seen |-> seen, out |-> <<>>, clip |-> clipboard, copies |-> <<>>,
                   raised |-> FALSE]
       IN \E st \in {webcam_decode(m, copy_raises, s, st0, copying) :
                       m \in MultiOutcomes(T, n), copy_raises \in BOOLEAN,
                       s \in SingleOutcomes(T)} :
            /\ seen' = st.seen
            /\ stdout' = stdout \o TextLines(st.out)
            /\ clipboard' = st.clip
            /\ copy_calls' = copy_calls \o st.copies
    /\ \E quit \in BOOLEAN :
         IF quit
         THEN ret' = <<0>> /\ pc' = "done" /\ cap' = "released"
         ELSE UNCHANGED <<ret, pc, cap>>
    /\ UNCHANGED <<env, path_idx, all_results, decode_locals, report_vars, stderr>>

Next ==
    \/ MainStart
    \/ PathNotFound
    \/ DecodeOpenCVMulti(Texts, MaxCodes)
    \/ DecodeOpenCVSingle(Texts)
    \/ DecodeReturnOpenCV
    \/ DecodeZXing(Texts, MaxCodes)
    \/ BeginReport
    \/ ReportNoQR
    \/ ReportTexts
    \/ MainReturn
    \/ WebcamOpen
    \/ WebcamReadFails
    \/ WebcamFrame(Texts, MaxCodes)

Spec == Init /\ [][Next]_vars

\* main() on one path, the backends reporting up to MaxCodesOneFile codes
\* with texts of ManyTexts.
NextOneFile ==
    \/ MainStart
    \/ PathNotFound
    \/ DecodeOpenCVMulti(ManyTexts, MaxCodesOneFile)
    \/ DecodeOpenCVSingle(ManyTexts)
    \/ DecodeReturnOpenCV
    \/ DecodeZXing(ManyTexts, MaxCodesOneFile)
    \/ BeginReport
    \/ ReportNoQR
    \/ ReportTexts
    \/ MainReturn

SpecOneFile == InitOneFile /\ [][NextOneFile]_vars

\* ------------------------------------------------------------------ properties
Last(s) == s[Len(s)]

Invoked(f) == InSeq(f, calls)

\* decode_from_image_path has just returned for a path (and main() recorded it).
DecodeReturned == pc = "decode_loop" /\ calls # <<>>

FileMode == args.paths # <<>> /\ ~args.webcam

HasText(s) == \E k \in 1..Len(s) : Truthy(s[k])

FirstIndex(s, x) == CHOOSE k \in 1..Len(s) : s[k] = x /\ \A l \in 1..(k - 1) : s[l] # x

\* C1: the backends are tried in the order OpenCV, ZXing; ZXing is invoked
\* exactly when OpenCV returned an empty list, and decode_from_image_path
\* returns the OpenCV list when it is non-empty and the ZXing list otherwise.
C1_BackendPriority ==
    /\ calls # <<>> => calls[1] = "try_decode_opencv"
    /\ \A k \in 1..Len(calls) :
         calls[k] = "try_decode_zxing" => k > 1 /\ cv_texts = <<>>
    /\ DecodeReturned =>
         /\ Invoked("try_decode_zxing") <=> cv_texts = <<>>
         /\ cv_texts # <<>> => Last(all_results).texts = cv_texts
         /\ cv_texts = <<>> => Last(all_results).texts = zx_texts

\* C1 witness: both OpenCV decoders ran, gave nothing, and ZXing gave a text.
C1_Witness ==
    /\ DecodeReturned
    /\ Invoked("detectAndDecodeMulti") /\ Invoked("detectAndDecode")
    /\ Invoked("read_barcodes")
    /\ Last(all_results).texts # <<>>

\* out is raw without its empty and None entries and without repetitions, in
\* the order of first occurrence.
IsDedupOf(out, raw) ==
    /\ \A k \in 1..Len(out) : out[k] # None /\ out[k] # EmptyText
    /\ \A k, l \in 1..Len(out) : k # l => out[k] # out[l]
    /\ {out[k] : k \in 1..Len(out)} =
         {raw[k] : k \in {k \in 1..Len(raw) : raw[k] # None /\ raw[k] # EmptyText}}
    /\ \A k, l \in 1..Len(out) :
         k < l => FirstIndex(raw, out[k]) < FirstIndex(raw, out[l])

\* The raw output of the backend whose list decode_from_image_path returned.
ReturnedRaw == IF Invoked("try_decode_zxing") THEN results ELSE texts_raw

\* C2: the list try_decode_opencv returns, and the list decode_from_image_path
\* returns, is the raw backend output deduplicated: no empty or None text, no
\* text twice, exactly the distinct non-empty raw texts, in first-occurrence order.
C2_Deduplicated ==
    /\ pc = "opencv_returned" => IsDedupOf(cv_texts, texts_raw)
    /\ DecodeReturned => IsDedupOf(Last(all_results).texts, ReturnedRaw)

\* C2 witness: a returned list that is shorter than the raw output it came from.
C2_Witness ==
    /\ DecodeReturned
    /\ Last(all_results).texts # <<>>
    /\ Len(ReturnedRaw) > Len(Last(all_results).texts)

\* p is t with the URLs moved to the front, the order inside the URLs and
\* inside the other texts kept: f maps each position of p to its position in t.
IsUrlFirstStablePartition(p, t) ==
    /\ Len(p) = Len(t)
    /\ \A k, l \in 1..Len(p) : k < l /\ is_url(p[l]) => is_url(p[k])
    /\ \E f \in [1..Len(p) -> 1..Len(t)] :
         /\ \A k, l \in 1..Len(p) : k # l => f[k] # f[l]
         /\ \A k \in 1..Len(p) : p[k] = t[f[k]]
         /\ \A k, l \in 1..Len(p) :
              k < l /\ (is_url(p[k]) <=> is_url(p[l])) => f[k] < f[l]

\* The texts among the lines that a step adds to stdout.
PrintedTexts(before, after) ==
    LET new == SubSeq(after, Len(before) + 1, Len(after))
        textLines == SelectSeq(new, LAMBDA ln : ln.kind = "text")
    IN [k \in 1..Len(textLines) |-> textLines[k].text]

\* C3: for each file with a non-empty result, the texts main() prints are a
\* URL-first stable partition of the decoded list.
C3_UrlFirstStablePartition ==
    [][(/\ pc = "report_loop"
        /\ res_idx' = res_idx + 1
        /\ all_results[res_idx].texts # <<>>)
       => IsUrlFirstStablePartition(PrintedTexts(stdout, stdout'),
                                    all_results[res_idx].texts)]_vars

\* C3 witness: a file was reported whose decoded list has a URL between two
\* texts that are no URLs, so the URL moved past one and the two kept their order.
C3_Witness ==
    /\ pc \in {"report_loop", "done"}
    /\ \E k \in 1..(res_idx - 1) :
         LET t == all_results[k].texts
         IN \E a, b, c \in 1..Len(t) :
              a < b /\ b < c /\ ~is_url(t[a]) /\ is_url(t[b]) /\ ~is_url(t[c])

\* The first URL of the decoded list if it has one, else its first text.
PreferredText(t) ==
    IF \E k \in 1..Len(t) : is_url(t[k])
    THEN t[CHOOSE k \in 1..Len(t) : is_url(t[k]) /\ \A l \in 1..(k - 1) : ~is_url(t[l])]
    ELSE t[1]

\* The results reported so far that have texts, in order.
ReportedWithTexts ==
    SelectSeq([k \in 1..Len(all_results) |-> [file |-> k, texts |-> all_results[k].texts]],
              LAMBDA r : r.file < res_idx /\ r.texts # <<>>)

\* C4 as stated: with --copy and pyperclip available, once main() returned in
\* file mode the clipboard holds the first ordered text of the last file that
\* had a result.
C4_ClipboardHoldsLastResult ==
    (/\ FileMode /\ pc = "done"
     /\ args.copy /\ PYPERCLIP_AVAILABLE
     /\ ReportedWithTexts # <<>>)
    => clipboard = PreferredText(Last(ReportedWithTexts).texts)

\* C4 amended: in file mode, without --copy or without pyperclip the clipboard
\* is never written; with both, exactly one copy is attempted for each file
\* with a non-empty result, of the first URL if there is one and else of the
\* first text, and none for other files; the clipboard holds the text of the
\* last attempt when that attempt did not raise; the texts are printed in
\* every case.
C4_CopyPerResult ==
    FileMode =>
      /\ ~(args.copy /\ PYPERCLIP_AVAILABLE) => copy_calls = <<>> /\ clipboard = PrevClip
      /\ args.copy /\ PYPERCLIP_AVAILABLE =>
           /\ Len(copy_calls) = Len(ReportedWithTexts)
           /\ \A k \in 1..Len(copy_calls) :
                /\ copy_calls[k].file = ReportedWithTexts[k].file
                /\ copy_calls[k].text = PreferredText(ReportedWithTexts[k].texts)
      /\ copy_calls = <<>> => clipboard = PrevClip
      /\ copy_calls # <<>> /\ Last(copy_calls).ok => clipboard = Last(copy_calls).text
      /\ \A k \in 1..Len(ReportedWithTexts) :
           \A n \in 1..Len(ReportedWithTexts[k].texts) :
              InSeq(Line("text", "", ReportedWithTexts[k].texts[n]), stdout)

\* C4 witness: main() returned; the first file had a text and then a URL, the
\* second had nothing, and the clipboard holds the URL.
C4_Witness ==
    /\ FileMode /\ pc = "done"
    /\ Len(all_results) = 2
    /\ all_results[1].texts = <<Hi, HttpA>>
    /\ all_results[2].texts = <<>>
    /\ clipboard = HttpA

\* C5: in webcam mode no file path is decoded and main() returns what
\* decode_from_webcam returns: 2 without OpenCV, 3 when the camera does not
\* open, and then no frame was read, stdout is empty and the clipboard is
\* not written.
C5_WebcamErrors ==
    args.webcam =>
      /\ pc \in {"main", "webcam", "webcam_loop", "done"}
      /\ all_results = <<>> /\ calls = <<>> /\ path_idx = 1
      /\ stdout # <<>> => stdout[1].kind = "Webcam mode"
      /\ pc = "done" =>
           /\ ~CV2_AVAILABLE => ret = <<2>> /\ cap = "unset"
           /\ CV2_AVAILABLE /\ cap = "failed" => ret = <<3>>
           /\ CV2_AVAILABLE /\ cap # "failed" => ret = <<0>> /\ cap = "released"
           /\ ret \in {<<2>>, <<3>>} =>
                /\ frames = 0
                /\ stdout = <<>>
                /\ clipboard = PrevClip /\ copy_calls = <<>>

\* C5 witness: --webcam with an existing path, the camera did not open.
C5_Witness ==
    /\ args.webcam /\ pc = "done"
    /\ \E k \in 1..Len(args.paths) : os_path_exists(args.paths[k])
    /\ ret = <<3>>

ExistingPaths == SelectSeq(args.paths, os_path_exists)

\* C7: in file mode main() returns 4 if a path that exists yielded no text and
\* 0 otherwise; a missing path is reported on stderr, is not decoded and gets
\* no "no QR found" line; without paths and --webcam main() prints the help,
\* decodes nothing and returns 1.
C7_ExitCode ==
    /\ (FileMode /\ pc = "done") =>
         /\ ret = IF \E k \in 1..Len(all_results) : all_results[k].texts = <<>>
                  THEN <<4>> ELSE <<0>>
         /\ [k \in 1..Len(all_results) |-> all_results[k].path] = ExistingPaths
         /\ [k \in 1..Len(SelectSeq(stderr, LAMBDA ln : ln.kind = "not found")) |->
               SelectSeq(stderr, LAMBDA ln : ln.kind = "not found")[k].path]
            = SelectSeq(args.paths, LAMBDA q : ~os_path_exists(q))
         /\ [k \in 1..Len(SelectSeq(stdout, LAMBDA ln : ln.kind = "no QR found")) |->
               SelectSeq(stdout, LAMBDA ln : ln.kind = "no QR found")[k].path]
            = [k \in 1..Len(SelectSeq(all_results, LAMBDA r : r.texts = <<>>)) |->
                 SelectSeq(all_results, LAMBDA r : r.texts = <<>>)[k].path]
    /\ (args.paths = <<>> /\ ~args.webcam) =>
         /\ pc \in {"main", "done"}
         /\ all_results = <<>> /\ calls = <<>>
         /\ pc = "done" => ret = <<1>> /\ stdout = <<Line("help", "", <<>>)>>

\* C7 witness: a missing path and an existing path without text; main()
\* returned 4.
C7_Witness ==
    /\ pc = "done"
    /\ args.paths = <<"missing.png", "a.png">>
    /\ ~args.webcam
    /\ ret = <<4>>

====
